---- MODULE Spec2Model ----
(***************************************************************************)
(* A model of Craftserve/chunked-uploader: the upload service (create,     *)
(* offset-addressed chunk writes, checksum-gated finish, rename, cleanup)  *)
(* over a file system, in the variants the repository holds.               *)
(*                                                                         *)
(*   Spec       the current service (Service, pkg/handlers), every handler *)
(*              one atomic step                                            *)
(*   SpecSolo   the same, one upload session                               *)
(*   SpecSweep  the current service over time, with the periodic Cleanup   *)
(*   SpecChunks one client delivering the chunks of a file in any order    *)
(*   SpecConc   the current service with FinishUpload in its steps, so     *)
(*              that Cleanup and other finishes interleave with it         *)
(*   SpecMeta   the metadata variant, whose finish promotes the artifact   *)
(*   SpecMetaSolo   the same, one finish call                              *)
(*   SpecAppend the append-capable service (ChunkedUploaderService), with  *)
(*              its optional maxFileSize, over time                        *)
(*   SpecGoClient   Client.Upload of pkg/client against any server         *)
(*   SpecUpload Client.Upload against the append-capable service           *)
(*   SpecWriters    two chunk writes on one artifact, step by step         *)
(*   SpecGoClientLive   SpecGoClient with every request answered           *)
(*   SpecCreate the metadata variant's create, step by step                *)
(*   SpecFinish the append-capable service with finish in two steps        *)
(*   SpecTsClient   ChunkedUploaderClient.upload of ts-client against the  *)
(*              append-capable service                                     *)
(*   SpecTsFetch    upload and uploadAsync of ts-client against any server *)
(***************************************************************************)
EXTENDS Integers, Sequences, FiniteSets, TLC

VARIABLES
    fs,        \* the file system: the .pending directory and the files
    now,       \* the clock (time.Now())
    nextId,    \* how many upload ids generateUploadId has handed out
    declared,  \* history: the size each upload id was created with
    lastOp,    \* history: the operation that completed last, and its outcome
    client,    \* the uploading client (its file, what it has sent)
    calls,     \* the handler calls in flight: finishes, chunk writes
    store,     \* SpecMeta: the files of the service that keeps metadata
    config     \* what the service was constructed with (maxFileSize)

vars == <<fs, now, nextId, declared, lastOp, client, calls, store, config>>

(***************************************************************************)
(* Bounds of the model.                                                    *)
(***************************************************************************)
MaxUploads == 2
MaxLen == 2
MaxTime == 2
MaxSource == 3
MaxCalls == 2

Byte == {0, 1}
Ids == 1..MaxUploads
Times == 0..MaxTime
Contents == UNION {[1..n -> Byte] : n \in 0..MaxLen}
Sizes == (0 - 1)..MaxLen
Offsets == (0 - 1)..MaxLen
Durations == 0..MaxTime
DestNames == {"done/file"}
Sources == UNION {[1..n -> Byte] : n \in 0..MaxSource}
Callers == 1..MaxCalls

Max(a, b) == IF a >= b THEN a ELSE b

(***************************************************************************)
(* Paths.  Pending artifacts live at .pending/<uploadId>.                  *)
(***************************************************************************)
getUploadPath == ".pending"

getUploadFilePath(uploadId) == <<getUploadPath, uploadId>>

PendingPaths == {getUploadFilePath(i) : i \in Ids}
DestPaths == {<<"dest", n>> : n \in DestNames}
Paths == PendingPaths \cup DestPaths

InPending(path) == path[1] = getUploadPath

(***************************************************************************)
(* Files.  ok is history: FinishUpload has approved exactly these bytes.    *)
(* Nothing reads the mtime of a file outside .pending, so it is kept 0.    *)
(***************************************************************************)
NoFile == [exists |-> FALSE, data |-> <<>>, mtime |-> 0, ok |-> FALSE]

NoDir == [exists |-> FALSE, mtime |-> 0]

Artifact(uploadId) == fs.files[getUploadFilePath(uploadId)]

(***************************************************************************)
(* The hash.  SHA-256 is a supplied primitive: Sum is a collision-free     *)
(* stand-in for it on the contents of the model, and EncodeToString is     *)
(* encoding/hex, which writes lower-case digits.                           *)
(***************************************************************************)
Sum(data) == <<160 + Len(data)>> \o [i \in 1..Len(data) |-> 192 + (17 * data[i])]

HexDigits == <<"0", "1", "2", "3", "4", "5", "6", "7", "8", "9",
               "a", "b", "c", "d", "e", "f">>

RECURSIVE EncodeToString(_)
EncodeToString(bytes) ==
    IF bytes = <<>> THEN <<>>
    ELSE <<HexDigits[(Head(bytes) \div 16) + 1], HexDigits[(Head(bytes) % 16) + 1]>>
             \o EncodeToString(Tail(bytes))

UpperOf(c) ==
    CASE c = "a" -> "A" [] c = "b" -> "B" [] c = "c" -> "C"
      [] c = "d" -> "D" [] c = "e" -> "E" [] c = "f" -> "F"
      [] OTHER -> c

ToUpper(s) == [i \in 1..Len(s) |-> UpperOf(s[i])]

EqualFold(a, b) == ToUpper(a) = ToUpper(b)

HexDigest(data) == EncodeToString(Sum(data))

\* The checksums a caller may send: every digest, its upper-case form, and "".
Checksums ==
    {HexDigest(d) : d \in Contents} \cup {ToUpper(HexDigest(d)) : d \in Contents}
        \cup {<<>>}

(***************************************************************************)
(* File operations of the operating system, as afero.OsFs gives them.      *)
(***************************************************************************)
\* File.Truncate(size): cut, or extend with zero bytes.
Truncate(data, size) ==
    [i \in 1..size |-> IF i <= Len(data) THEN data[i] ELSE 0]

\* A mutant of WriteAt: the seek lands one byte late.
WriteAtOneLate(data, offset, bytes) ==
    [i \in 1..Max(Len(data), offset + 1 + Len(bytes)) |->
        IF i > offset + 1 /\ i <= offset + 1 + Len(bytes) THEN bytes[i - offset - 1]
        ELSE IF i <= Len(data) THEN data[i]
        ELSE 0]

\* File.Seek(offset, SeekStart) then Write(bytes): a gap is zero-filled.
WriteAt(data, offset, bytes) ==
    [i \in 1..Max(Len(data), offset + Len(bytes)) |->
        IF i > offset /\ i <= offset + Len(bytes) THEN bytes[i - offset]
        ELSE IF i <= Len(data) THEN data[i]
        ELSE 0]

\* Adding or removing an entry of .pending sets the directory's mtime.
TouchDir(dir, path, t) ==
    IF InPending(path) THEN [dir EXCEPT !.mtime = t] ELSE dir

\* MkdirAll(".pending"): creates the directory when it is missing.
MkdirAll(dir, path, t) ==
    IF InPending(path) /\ ~dir.exists THEN [exists |-> TRUE, mtime |-> t] ELSE dir

\* openFile with O_CREATE|O_RDWR: MkdirAll of the directory, then the file is
\* created empty when it does not exist.
createFile(f, path, t) ==
    LET dir == MkdirAll(f.dir, path, t) IN
    IF f.files[path].exists THEN [f EXCEPT !.dir = dir]
    ELSE [dir |-> TouchDir(dir, path, t),
          files |-> [f.files EXCEPT ![path] =
              [exists |-> TRUE, data |-> <<>>, mtime |-> t, ok |-> FALSE]]]

(***************************************************************************)
(* Service (src/unnamed/part_008).  Each operator gives the file system    *)
(* after the call and the error ("" for nil).                              *)
(***************************************************************************)
createUpload(f, uploadId, maxSize, t) ==
    LET tempPath == getUploadFilePath(uploadId)
        g == createFile(f, tempPath, t)
        old == g.files[tempPath]
    IN  IF maxSize < 0
        THEN [fs |-> g, err |-> "Failed to preallocate file size"]
        ELSE [fs |-> [g EXCEPT !.files[tempPath] =
                        [old EXCEPT !.data = Truncate(@, maxSize), !.mtime = t,
                                    !.ok = old.ok /\ Len(old.data) = maxSize]],
              err |-> ""]

\* A mutant of writePart: the file is opened for appending, so the offset
\* is not honoured.
writePartAppending(f, path, data, offset, computeHash, t) ==
    IF ~f.files[path].exists
    THEN [fs |-> f, err |-> "no such file or directory", hash |-> <<>>]
    ELSE IF offset < 0
    THEN [fs |-> f, err |-> "invalid argument", hash |-> <<>>]
    ELSE [fs |-> IF data = <<>> THEN f
                 ELSE LET old == f.files[path] IN
                      [f EXCEPT !.files[path] =
                          [old EXCEPT !.data = old.data \o data, !.mtime = t,
                                      !.ok = FALSE]],
          err |-> "",
          hash |-> IF computeHash THEN HexDigest(data) ELSE <<>>]

\* A mutant of ToFile: with a hash requested the bytes go to the hasher only.
ToFileUnlessHashed(data, computeHash) == IF computeHash THEN <<>> ELSE data

\* What io.Copy(writer, data) delivers to the file: writer is the file, or
\* io.MultiWriter(file, hasher) when a hash is requested.
ToFile(data, computeHash) == data

writePart(f, path, data, offset, computeHash, t) ==
    IF ~f.files[path].exists
    THEN [fs |-> f, err |-> "no such file or directory", hash |-> <<>>]
    ELSE IF offset < 0
    THEN [fs |-> f, err |-> "invalid argument", hash |-> <<>>]
    ELSE [fs |-> IF ToFile(data, computeHash) = <<>> THEN f
                 ELSE LET old == f.files[path]
                          new == WriteAt(old.data, offset, ToFile(data, computeHash))
                      IN  [f EXCEPT !.files[path] =
                              [old EXCEPT !.data = new, !.mtime = t,
                                          !.ok = old.ok /\ new = old.data]],
          err |-> "",
          hash |-> IF computeHash THEN HexDigest(data) ELSE <<>>]

\* utils.ComputeChecksum: the digest of the file's bytes, or the open error.
ComputeChecksum(f, path) ==
    IF ~f.files[path].exists
    THEN [sum |-> <<>>, err |-> "no such file or directory"]
    ELSE [sum |-> HexDigest(f.files[path].data), err |-> ""]

MismatchError == "checksum does not match expected checksum"

\* A mutant of verifyUpload: the digests are compared with strings.EqualFold.
verifyUploadFolding(f, uploadId, expectedChecksum) ==
    LET c == ComputeChecksum(f, getUploadFilePath(uploadId)) IN
    IF c.err # "" THEN "Failed to compute checksum"
    ELSE IF ~EqualFold(c.sum, expectedChecksum) THEN MismatchError
    ELSE ""

verifyUpload(f, uploadId, expectedChecksum) ==
    LET c == ComputeChecksum(f, getUploadFilePath(uploadId)) IN
    IF c.err # "" THEN "Failed to compute checksum"
    ELSE IF c.sum # expectedChecksum THEN MismatchError
    ELSE ""

\* filepath.Walk over .pending in lexical order, removing what is older than
\* timeLimit: the walk visits the directory itself first, and an error that
\* the callback returns (a failed Remove) ends the walk.
RECURSIVE walkFiles(_, _, _, _)
walkFiles(f, names, timeLimit, t) ==
    IF names = {} THEN f
    ELSE LET i == CHOOSE x \in names : \A y \in names : x <= y
             path == getUploadFilePath(i)
             g == IF f.files[path].exists /\ f.files[path].mtime < timeLimit
                  THEN [dir |-> TouchDir(f.dir, path, t),
                        files |-> [f.files EXCEPT ![path] = NoFile]]
                  ELSE f
         IN  walkFiles(g, names \ {i}, timeLimit, t)

Cleanup(f, duration, t) ==
    LET timeLimit == t - duration
        names == {i \in Ids : f.files[getUploadFilePath(i)].exists}
    IN  IF ~f.dir.exists THEN f
        ELSE IF f.dir.mtime < timeLimit
        THEN IF names # {} THEN f             \* Remove: directory not empty
             ELSE [f EXCEPT !.dir = NoDir]    \* the empty directory is removed
        ELSE walkFiles(f, names, timeLimit, t)

\* MkdirAll(filepath.Dir(newPath)), then Rename: the destination is replaced.
RenameUploadedFile(f, uploadId, newPath, t) ==
    LET uploadPath == getUploadFilePath(uploadId) IN
    IF ~f.files[uploadPath].exists
    THEN [fs |-> [f EXCEPT !.dir = MkdirAll(f.dir, newPath, t)],
          err |-> "no such file or directory"]
    ELSE IF newPath = uploadPath THEN [fs |-> f, err |-> ""]
    ELSE [fs |-> [dir |-> TouchDir(f.dir, uploadPath, t),
                  files |-> [f.files EXCEPT
                      ![newPath] = IF InPending(newPath) THEN f.files[uploadPath]
                                   ELSE [f.files[uploadPath] EXCEPT !.mtime = 0],
                      ![uploadPath] = NoFile]],
          err |-> ""]

(***************************************************************************)
(* State.                                                                  *)
(***************************************************************************)
Op(op, id, err, arg) ==
    [op |-> op, id |-> id, err |-> err, arg |-> arg, rel |-> "", at |-> now]

\* How an expected checksum relates to the digest of the artifact: history
\* for the record of a finish.
Exact == "exact"
Folded == "folded"
Differs == "differs"

Relation(f, uploadId, expectedChecksum) ==
    LET a == f.files[getUploadFilePath(uploadId)] IN
    IF a.exists /\ expectedChecksum = HexDigest(a.data) THEN Exact
    ELSE IF a.exists /\ EqualFold(expectedChecksum, HexDigest(a.data)) THEN Folded
    ELSE Differs

NoClient == [id |-> 0, source |-> <<>>, chunkSize |-> 0, order |-> <<>>]

\* A finish call: where it is, what it read and computed, and history: what
\* the sweep took from under it, whether it hashed the artifact, which calls
\* for the same id it overlapped, and what it answered.
Idle == [pc |-> "idle", id |-> 0, expected |-> <<>>, sum |-> <<>>, swept |-> FALSE,
         path |-> <<>>, hashed |-> FALSE, with |-> {}, outcome |-> ""]

NoMeta == [exists |-> FALSE, last_attemp |-> 0, total_size |-> 0, path |-> <<>>,
           checksum |-> <<>>]

NoPending == [exists |-> FALSE, data |-> <<>>]

\* ./.chunked_uploader/.pending/<uploadId>: the directory, metadata.json, the
\* pending file, and who holds the flock on metadata.json (0: nobody).
NoUpload == [dir |-> FALSE, meta |-> NoMeta, file |-> NoPending, lock |-> 0]

\* NewService takes no limit; a nil *int64 is the empty sequence.
NoConfig == [maxFileSize |-> <<>>]

\* made: the destination paths whose directory exists.
InitStore == [up |-> [i \in Ids |-> NoUpload], dest |-> [p \in DestPaths |-> NoPending],
              made |-> {}]

InitService ==
    /\ fs = [dir |-> NoDir, files |-> [p \in Paths |-> NoFile]]
    /\ now = 0
    /\ nextId = 0
    /\ declared = [i \in Ids |-> 0]
    /\ lastOp = Op("none", 0, "", 0)

Init ==
    /\ InitService
    /\ client = NoClient
    /\ calls = [c \in Callers |-> Idle]
    /\ store = InitStore
    /\ config = NoConfig

(***************************************************************************)
(* Handlers (src/pkg/handlers/main.go) and the Service methods they call.  *)
(***************************************************************************)
\* Service.CreateUpload: a fresh id, then createUpload.
CreateUpload(fileSize) ==
    /\ nextId < MaxUploads
    /\ LET uploadId == nextId + 1
           r == createUpload(fs, uploadId, fileSize, now)
       IN  /\ fs' = r.fs
           /\ nextId' = uploadId
           /\ declared' = [declared EXCEPT ![uploadId] = fileSize]
           /\ lastOp' = IF r.err = "" THEN Op("CreateUpload", uploadId, "", fileSize)
                        ELSE Op("CreateUpload", 0, "Failed to create upload", fileSize)
    /\ UNCHANGED now

CreateUploadHandler(fileSize) ==
    IF fileSize <= 0
    THEN /\ lastOp' = Op("CreateUpload", 0, "Invalid file_size", fileSize)
         /\ UNCHANGED <<fs, now, nextId, declared>>
    ELSE CreateUpload(fileSize)

\* Service.UploadChunk behind UploadChunkHandler: the Range header gives the
\* offset; its end is only compared with its start.  arg records where the
\* write ends.
UploadChunk(f, uploadId, data, offset, computeHash, t) ==
    writePart(f, getUploadFilePath(uploadId), data, offset, computeHash, t)

UploadChunkHandler(uploadId, rangeStart, rangeEnd, data, computeHash) ==
    /\ IF rangeStart > rangeEnd
       THEN /\ lastOp' = Op("UploadChunk", uploadId, "Invalid Range header",
                            rangeStart + Len(data))
            /\ UNCHANGED fs
       ELSE LET r == UploadChunk(fs, uploadId, data, rangeStart, computeHash, now)
            IN  /\ fs' = r.fs
                /\ lastOp' = Op("UploadChunk", uploadId, r.err, rangeStart + Len(data))
    /\ UNCHANGED <<now, nextId, declared>>

\* Service.FinishUpload behind FinishUploadHandler: the path of the pending
\* artifact on success.  arg records how the checksum sent relates to the
\* artifact's digest.
FinishUpload(f, uploadId, expectedChecksum) ==
    LET err == verifyUpload(f, uploadId, expectedChecksum) IN
    IF err # "" THEN [path |-> <<>>, err |-> err]
    ELSE [path |-> getUploadFilePath(uploadId), err |-> ""]

Approve(f, path) == [f EXCEPT !.files[path].ok = TRUE]

FinishUploadHandler(uploadId, expectedChecksum) ==
    /\ IF expectedChecksum = <<>>
       THEN /\ lastOp' = [Op("FinishUpload", uploadId, "checksum is required", 0)
                           EXCEPT !.rel = Differs]
            /\ UNCHANGED fs
       ELSE LET r == FinishUpload(fs, uploadId, expectedChecksum) IN
            /\ lastOp' = [Op("FinishUpload", uploadId, r.err, 0)
                           EXCEPT !.rel = Relation(fs, uploadId, expectedChecksum)]
            /\ fs' = IF r.err = "" THEN Approve(fs, r.path) ELSE fs
    /\ UNCHANGED <<now, nextId, declared>>

RenameUploadedFileHandler(uploadId, newPath) ==
    /\ LET r == RenameUploadedFile(fs, uploadId, newPath, now) IN
       /\ fs' = r.fs
       /\ lastOp' = Op("RenameUploadedFile", uploadId, r.err, 0)
    /\ UNCHANGED <<now, nextId, declared>>

\* The periodic sweep.  arg records the time limit.
CleanupSweep(duration) ==
    /\ fs' = Cleanup(fs, duration, now)
    /\ lastOp' = Op("Cleanup", 0, "", now - duration)
    /\ UNCHANGED <<now, nextId, declared>>

Tick ==
    /\ now < MaxTime
    /\ now' = now + 1
    /\ UNCHANGED <<fs, nextId, declared, lastOp>>

(***************************************************************************)
(* Spec: the HTTP surface of the current service.  The clock stands still, *)
(* so the sweep has nothing to remove; SpecSweep lets time pass.  No       *)
(* artifact grows beyond MaxLen bytes.                                     *)
(***************************************************************************)
\* The Range header's end as the clients send it: the last byte (Go client)
\* or one past it (demo page).
RangeEnds(rangeStart, data) == {rangeStart + Len(data) - 1, rangeStart + Len(data)}

Next ==
    \/ /\ \E s \in Sizes : CreateUploadHandler(s)
       /\ UNCHANGED <<client, calls, store, config>>
    \/ /\ \E i \in Ids, a \in Offsets, d \in Contents, h \in BOOLEAN :
              /\ a + Len(d) <= MaxLen
              /\ \E b \in RangeEnds(a, d) : UploadChunkHandler(i, a, b, d, h)
       /\ UNCHANGED <<client, calls, store, config>>
    \/ /\ \E i \in Ids, c \in Checksums : FinishUploadHandler(i, c)
       /\ UNCHANGED <<client, calls, store, config>>
    \/ /\ \E i \in Ids, p \in Paths : RenameUploadedFileHandler(i, p)
       /\ UNCHANGED <<client, calls, store, config>>

Spec == Init /\ [][Next]_vars

(***************************************************************************)
(* SpecSolo: the same handlers called for the first upload only, which is  *)
(* created once.  What holds of one artifact can be checked here with      *)
(* longer files.                                                           *)
(***************************************************************************)
First == {i \in Ids : i <= 1}

NextSolo ==
    \/ /\ nextId = 0
       /\ \E s \in Sizes : CreateUploadHandler(s)
       /\ UNCHANGED <<client, calls, store, config>>
    \/ /\ \E i \in First, a \in Offsets, d \in Contents, h \in BOOLEAN :
              /\ a + Len(d) <= MaxLen
              /\ \E b \in RangeEnds(a, d) : UploadChunkHandler(i, a, b, d, h)
       /\ UNCHANGED <<client, calls, store, config>>
    \/ /\ \E i \in First, c \in Checksums : FinishUploadHandler(i, c)
       /\ UNCHANGED <<client, calls, store, config>>
    \/ /\ \E i \in First, p \in Paths : RenameUploadedFileHandler(i, p)
       /\ UNCHANGED <<client, calls, store, config>>

SpecSolo == Init /\ [][NextSolo]_vars

(***************************************************************************)
(* SpecSweep: the service over time.  Uploads are one byte long, and what  *)
(* varies is when each call happens.                                       *)
(***************************************************************************)
SweepData == <<1>>

NextSweep ==
    \/ /\ CreateUploadHandler(Len(SweepData))
       /\ UNCHANGED <<client, calls, store, config>>
    \/ /\ \E i \in Ids : UploadChunkHandler(i, 0, 0, SweepData, FALSE)
       /\ UNCHANGED <<client, calls, store, config>>
    \/ /\ \E i \in Ids, d \in {<<0>>, SweepData} : FinishUploadHandler(i, HexDigest(d))
       /\ UNCHANGED <<client, calls, store, config>>
    \/ /\ \E i \in Ids, p \in DestPaths : RenameUploadedFileHandler(i, p)
       /\ UNCHANGED <<client, calls, store, config>>
    \/ /\ \E t \in Durations : CleanupSweep(t)
       /\ UNCHANGED <<client, calls, store, config>>
    \/ /\ Tick
       /\ UNCHANGED <<client, calls, store, config>>

SpecSweep == Init /\ [][NextSweep]_vars

(***************************************************************************)
(* SpecChunks: one client uploads a file.  It creates the upload with the  *)
(* file's size, sends each chunk once at its offset, in any order, and     *)
(* finishes with the digest of the file.                                   *)
(***************************************************************************)
NumChunks(size, chunkSize) == (size + chunkSize - 1) \div chunkSize

Min(a, b) == IF a <= b THEN a ELSE b

\* Chunk k (from 0) of the client's file.
ChunkOffset(k) == k * client.chunkSize

ChunkData(k) ==
    SubSeq(client.source, ChunkOffset(k) + 1,
           Min(Len(client.source), ChunkOffset(k) + client.chunkSize))

ChunkIndices == 0..(NumChunks(Len(client.source), client.chunkSize) - 1)

Delivered == {client.order[n] : n \in 1..Len(client.order)}

AllSent == client.id # 0 /\ Delivered = ChunkIndices

InitChunks ==
    /\ InitService
    /\ client \in [id : {0}, source : Sources, chunkSize : 1..MaxSource, order : {<<>>}]
    /\ calls = [c \in Callers |-> Idle]
    /\ store = InitStore
    /\ config = NoConfig

ClientCreate ==
    /\ client.id = 0
    /\ CreateUpload(Len(client.source))
    /\ client' = [client EXCEPT !.id = nextId']
    /\ UNCHANGED <<calls, store, config>>

ClientSendChunk(k, computeHash) ==
    /\ client.id # 0
    /\ k \in ChunkIndices \ Delivered
    /\ UploadChunkHandler(client.id, ChunkOffset(k),
                          ChunkOffset(k) + Len(ChunkData(k)) - 1, ChunkData(k),
                          computeHash)
    /\ lastOp'.err = ""
    /\ client' = [client EXCEPT !.order = Append(@, k)]
    /\ UNCHANGED <<calls, store, config>>

ClientFinish ==
    /\ client.id # 0
    /\ FinishUploadHandler(client.id, HexDigest(client.source))
    /\ UNCHANGED <<client, calls, store, config>>

NextChunks ==
    \/ ClientCreate
    \/ \E k \in 0..MaxSource, h \in BOOLEAN : ClientSendChunk(k, h)
    \/ ClientFinish

SpecChunks == InitChunks /\ [][NextChunks]_vars

(***************************************************************************)
(* SpecConc: the service over time, with a finish call taken in two steps: *)
(* the artifact is opened and hashed, and later the digest is compared and *)
(* the call returns.  Other calls and the sweep run in between.            *)
(***************************************************************************)
\* handlers.FinishUploadHandler up to the end of checksum.ComputeChecksum.
FinishStart(c, uploadId, expectedChecksum) ==
    /\ calls[c].pc = "idle"
    /\ IF expectedChecksum = <<>>
       THEN /\ lastOp' = [Op("FinishUpload", uploadId, "checksum is required", 0)
                           EXCEPT !.rel = Differs]
            /\ UNCHANGED calls
       ELSE LET r == ComputeChecksum(fs, getUploadFilePath(uploadId)) IN
            IF r.err # ""
            THEN /\ lastOp' = [Op("FinishUpload", uploadId, r.err, 0)
                                EXCEPT !.rel = Differs]
                 /\ UNCHANGED calls
            ELSE /\ calls' = [calls EXCEPT ![c] =
                                 [Idle EXCEPT !.pc = "hashed", !.id = uploadId,
                                              !.expected = expectedChecksum,
                                              !.sum = r.sum]]
                 /\ UNCHANGED lastOp
    /\ UNCHANGED <<fs, now, nextId, declared, client, store, config>>

\* verifyUpload's comparison, FinishUpload's return and the handler's
\* response.  arg records whether the artifact is still there (1) or not (0).
FinishReturn(c) ==
    /\ calls[c].pc = "hashed"
    /\ LET uploadId == calls[c].id
           err == IF calls[c].sum # calls[c].expected THEN MismatchError ELSE ""
           there == Artifact(uploadId).exists
       IN  /\ lastOp' = [Op("FinishUpload", uploadId, err, IF there THEN 1 ELSE 0)
                           EXCEPT !.rel = IF err = "" THEN Exact ELSE Differs]
           /\ fs' = IF err = "" /\ there
                           /\ HexDigest(Artifact(uploadId).data) = calls[c].sum
                    THEN Approve(fs, getUploadFilePath(uploadId))
                    ELSE fs
    /\ calls' = [calls EXCEPT ![c] = Idle]
    /\ UNCHANGED <<now, nextId, declared, client, store, config>>

\* The sweep, with the history of what it took from under a finish.
ConcCleanup(duration) ==
    /\ CleanupSweep(duration)
    /\ calls' = [c \in Callers |->
                    IF /\ calls[c].pc = "hashed"
                       /\ Artifact(calls[c].id).exists
                       /\ ~fs'.files[getUploadFilePath(calls[c].id)].exists
                    THEN [calls[c] EXCEPT !.swept = TRUE]
                    ELSE calls[c]]
    /\ UNCHANGED <<client, store, config>>

NextConc ==
    \/ /\ CreateUploadHandler(Len(SweepData))
       /\ UNCHANGED <<client, calls, store, config>>
    \/ /\ \E i \in Ids : UploadChunkHandler(i, 0, 0, SweepData, FALSE)
       /\ UNCHANGED <<client, calls, store, config>>
    \/ \E c \in Callers, i \in Ids, e \in {<<>>, HexDigest(SweepData)} :
           FinishStart(c, i, e)
    \/ \E c \in Callers : FinishReturn(c)
    \/ \E t \in Durations : ConcCleanup(t)
    \/ /\ Tick
       /\ UNCHANGED <<client, calls, store, config>>

SpecConc == Init /\ [][NextConc]_vars

(***************************************************************************)
(* SpecMeta: the service that keeps a metadata file beside each pending    *)
(* file and promotes the file itself when a finish verifies it.  A finish  *)
(* call is taken in steps; filesystem calls succeed whenever the files     *)
(* they need are there.  Each client sends the same path for an upload id  *)
(* throughout, so an upload has one pending file.                          *)
(***************************************************************************)
\* files.LockFile: flock(LOCK_EX|LOCK_NB) fails when another open file holds
\* the lock.
LockFile(st, uploadId, c) ==
    IF st.up[uploadId].lock # 0
    THEN [st |-> st, err |-> "resource temporarily unavailable"]
    ELSE [st |-> [st EXCEPT !.up[uploadId].lock = c], err |-> ""]

\* files.UnlockFile.  A lock on a file that was removed since is not the lock
\* of the file now at the path.
UnlockFile(st, uploadId, c) ==
    IF st.up[uploadId].lock = c THEN [st EXCEPT !.up[uploadId].lock = 0] ELSE st

CreateMetadataFile(st, uploadId, fileSize, path, checksum, t) ==
    LET created == [st EXCEPT !.up[uploadId].dir = TRUE,
                              !.up[uploadId].meta.exists = TRUE]
        locked == LockFile(created, uploadId, MaxCalls + 1)
    IN  IF locked.err # ""
        THEN [st |-> created, err |-> "Failed to lock file, " \o locked.err]
        ELSE [st |-> [created EXCEPT !.up[uploadId].meta =
                         [exists |-> TRUE, last_attemp |-> t, total_size |-> fileSize,
                          path |-> path, checksum |-> checksum]],
              err |-> ""]

\* The file is opened with O_CREATE and without O_TRUNC.
CreatePendingFile(st, uploadId) ==
    [st EXCEPT !.up[uploadId].dir = TRUE, !.up[uploadId].file.exists = TRUE]

\* A mutant of ClearPendingData: nothing is removed.
ClearPendingDataSkipped(st, uploadId) == st

\* fs.RemoveAll of the upload's directory.
ClearPendingData(st, uploadId) == [st EXCEPT !.up[uploadId] = NoUpload]

VerifyUpload(st, uploadId, expectedChecksum) ==
    LET file == st.up[uploadId].file IN
    IF ~file.exists
    THEN [sum |-> <<>>, hashed |-> FALSE,
          err |-> "Failed to compute checksum, no such file or directory"]
    ELSE [sum |-> HexDigest(file.data), hashed |-> TRUE,
          err |-> IF HexDigest(file.data) # expectedChecksum THEN MismatchError ELSE ""]

\* After a failed CreateMetadataFile the handler goes on to create the
\* pending file.
InitUploadHandler(uploadId, fileSize, path, checksum) ==
    /\ LET m == CreateMetadataFile(store, uploadId, fileSize, path, checksum, now) IN
       /\ store' = CreatePendingFile(m.st, uploadId)
       /\ lastOp' = Op("InitUpload", uploadId, m.err, fileSize)
    /\ UNCHANGED <<fs, now, nextId, declared, client, calls, config>>

\* requestFile.Read(buf): buf is rangeEnd - rangeStart bytes long and takes
\* as much of the body as fits; what is left of it stays zero.
ReadBuf(rangeStart, rangeEnd, body) ==
    [n \in 1..(rangeEnd - rangeStart) |-> IF n <= Len(body) THEN body[n] ELSE 0]

\* The metadata file is opened O_RDONLY, so writing last_attempt back fails
\* after the chunk has been written.
UploadChunkHandlerMeta(uploadId, rangeStart, rangeEnd, body) ==
    /\ IF rangeStart > rangeEnd
       THEN /\ lastOp' = Op("UploadChunk", uploadId,
                            "range_start must be less than or equal to range_end", 0)
            /\ UNCHANGED store
       ELSE IF ~store.up[uploadId].file.exists
       THEN /\ lastOp' = Op("UploadChunk", uploadId, "Failed to open temp file", 0)
            /\ store' = [store EXCEPT !.up[uploadId].dir = TRUE]
       ELSE IF ~store.up[uploadId].meta.exists
       THEN /\ lastOp' = Op("UploadChunk", uploadId, "Failed to open metadata file", 0)
            /\ UNCHANGED store
       ELSE IF body = <<>>
       THEN /\ lastOp' = Op("UploadChunk", uploadId, "Could not read file", 0)
            /\ UNCHANGED store
       ELSE LET buf == ReadBuf(rangeStart, rangeEnd, body) IN
            /\ store' = IF buf = <<>> THEN store
                        ELSE [store EXCEPT !.up[uploadId].file.data =
                                               WriteAt(@, rangeStart, buf)]
            /\ lastOp' = Op("UploadChunk", uploadId, "Failed to write metadata file",
                            rangeEnd)
    /\ UNCHANGED <<fs, now, nextId, declared, client, calls, config>>

InFlight(c) == calls[c].pc \notin {"idle", "done"}

\* The calls already in flight for the upload a new call is for.
Overlapping(c, uploadId) ==
    {c2 \in Callers \ {c} : InFlight(c2) /\ calls[c2].id = uploadId}

\* The record of call c replaced, and the history of who overlaps whom kept.
Begin(c, uploadId, call) ==
    [c2 \in Callers |->
        IF c2 = c THEN [call EXCEPT !.with = Overlapping(c, uploadId)]
        ELSE IF c2 \in Overlapping(c, uploadId)
        THEN [calls[c2] EXCEPT !.with = @ \cup {c}]
        ELSE [calls[c2] EXCEPT !.with = @ \ {c}]]

Answer(c, outcome) == [calls EXCEPT ![c].pc = "done", ![c].outcome = outcome]

Created == "201 Created"

\* What the caller of a handler that panicked gets: the server recovers the
\* panic and closes the connection.
Panic == "panic: nil pointer dereference"

\* FinishUploadHandler up to LockFile.  The call reads the metadata of the
\* file it opened here.
FinishLock(c, uploadId) ==
    /\ ~InFlight(c)
    /\ LET call == [Idle EXCEPT !.id = uploadId]
           locked == LockFile(store, uploadId, c)
       IN  IF ~store.up[uploadId].meta.exists
           THEN /\ calls' = Begin(c, uploadId,
                       [call EXCEPT !.pc = "done",
                                    !.outcome = "Failed to open metadata file"])
                /\ UNCHANGED store
           ELSE IF locked.err # ""
           THEN /\ calls' = Begin(c, uploadId,
                       [call EXCEPT !.pc = "done",
                                    !.outcome = "Failed to lock metadata file"])
                /\ UNCHANGED store
           ELSE /\ calls' = Begin(c, uploadId,
                       [call EXCEPT !.pc = "locked",
                                    !.expected = store.up[uploadId].meta.checksum,
                                    !.path = store.up[uploadId].meta.path])
                /\ store' = locked.st
    /\ UNCHANGED <<fs, now, nextId, declared, lastOp, client, config>>

\* decoder.Decode and UnlockFile.
FinishDecode(c) ==
    /\ calls[c].pc = "locked"
    /\ store' = UnlockFile(store, calls[c].id, c)
    /\ calls' = [calls EXCEPT ![c].pc = "decoded"]
    /\ UNCHANGED <<fs, now, nextId, declared, lastOp, client, config>>

FinishVerify(c) ==
    /\ calls[c].pc = "decoded"
    /\ LET v == VerifyUpload(store, calls[c].id, calls[c].expected) IN
       calls' = [calls EXCEPT ![c].pc = IF v.err # "" THEN "rejected" ELSE "verified",
                              ![c].sum = v.sum,
                              ![c].hashed = v.hashed]
    /\ UNCHANGED <<fs, now, nextId, declared, lastOp, client, store, config>>

\* The verify-failure branch: err is overwritten with the result of
\* ClearPendingData, which is nil, and err.Error() panics.
FinishReject(c) ==
    /\ calls[c].pc = "rejected"
    /\ store' = ClearPendingData(store, calls[c].id)
    /\ calls' = Answer(c, Panic)
    /\ UNCHANGED <<fs, now, nextId, declared, lastOp, client, config>>

\* fs.MkdirAll(basePath) and fs.Rename(pendingPath, path).
FinishRename(c) ==
    /\ calls[c].pc = "verified"
    /\ IF ~store.up[calls[c].id].file.exists
       THEN /\ calls' = Answer(c, "Failed to move file")
            /\ store' = [store EXCEPT !.made = @ \cup {calls[c].path}]
       ELSE /\ store' = [store EXCEPT !.made = @ \cup {calls[c].path},
                                      !.dest[calls[c].path] = store.up[calls[c].id].file,
                                      !.up[calls[c].id].file = NoPending]
            /\ calls' = [calls EXCEPT ![c].pc = "renamed"]
    /\ UNCHANGED <<fs, now, nextId, declared, lastOp, client, config>>

FinishClear(c) ==
    /\ calls[c].pc = "renamed"
    /\ store' = ClearPendingData(store, calls[c].id)
    /\ calls' = Answer(c, Created)
    /\ UNCHANGED <<fs, now, nextId, declared, lastOp, client, config>>

NextMeta ==
    \/ \E i \in Ids, p \in DestPaths, k \in {HexDigest(<<0>>), HexDigest(SweepData)} :
           InitUploadHandler(i, Len(SweepData), p, k)
    \/ \E i \in Ids, b \in 0..Len(SweepData) : UploadChunkHandlerMeta(i, 0, b, SweepData)
    \/ \E c \in Callers, i \in Ids : FinishLock(c, i)
    \/ \E c \in Callers : FinishDecode(c)
    \/ \E c \in Callers : FinishVerify(c)
    \/ \E c \in Callers : FinishReject(c)
    \/ \E c \in Callers : FinishRename(c)
    \/ \E c \in Callers : FinishClear(c)

SpecMeta == Init /\ [][NextMeta]_vars

(***************************************************************************)
(* SpecMetaSolo: the same service with one upload and one finish call at a *)
(* time.                                                                   *)
(***************************************************************************)
FirstCaller == {c \in Callers : c <= 1}

NextMetaSolo ==
    \/ \E i \in First, p \in DestPaths, k \in {HexDigest(<<0>>), HexDigest(SweepData)} :
           InitUploadHandler(i, Len(SweepData), p, k)
    \/ \E i \in First, b \in 0..Len(SweepData) : UploadChunkHandlerMeta(i, 0, b, SweepData)
    \/ \E c \in FirstCaller, i \in First : FinishLock(c, i)
    \/ \E c \in FirstCaller : FinishDecode(c)
    \/ \E c \in FirstCaller : FinishVerify(c)
    \/ \E c \in FirstCaller : FinishReject(c)
    \/ \E c \in FirstCaller : FinishRename(c)
    \/ \E c \in FirstCaller : FinishClear(c)

SpecMetaSolo == Init /\ [][NextMetaSolo]_vars

(***************************************************************************)
(* SpecAppend: the append-capable service (ChunkedUploaderService of       *)
(* src/unnamed/part_005) and its handlers, over time.  A create may leave  *)
(* the size out, a chunk may leave the offset out, and the service may be  *)
(* constructed with a maxFileSize.  No artifact grows beyond MaxLen bytes. *)
(***************************************************************************)
\* createUpload of the append-capable service: the file is truncated only
\* to a positive size.
createUploadAppend(f, uploadId, maxSize, t) ==
    LET tempPath == getUploadFilePath(uploadId)
        g == createFile(f, tempPath, t)
        old == g.files[tempPath]
    IN  IF maxSize > 0
        THEN [fs |-> [g EXCEPT !.files[tempPath] =
                        [old EXCEPT !.data = Truncate(@, maxSize), !.mtime = t,
                                    !.ok = old.ok /\ Len(old.data) = maxSize]],
              err |-> ""]
        ELSE [fs |-> g, err |-> ""]

\* A mutant of seekPosition: offset -1 seeks to the start of the file.
seekPositionStart(offset, size) == IF offset = 0 - 1 THEN 0 ELSE offset

\* The position writePart seeks to: the end of the file for offset -1, the
\* offset from the start otherwise.
seekPosition(offset, size) == IF offset = 0 - 1 THEN size ELSE offset

\* writePart of the append-capable service: the size of the file is compared
\* with maxFileSize before the write; offset -1 seeks to the end; the hash
\* of the chunk is always computed.
writePartAppend(f, path, data, offset, maxFileSize, t) ==
    LET file == f.files[path] IN
    IF ~file.exists
    THEN [fs |-> f, err |-> "no such file or directory", hash |-> <<>>]
    ELSE IF maxFileSize # <<>> /\ Len(file.data) >= maxFileSize[1]
    THEN [fs |-> f, err |-> "file_size_exceeds_maximum", hash |-> <<>>]
    ELSE IF offset < 0 - 1
    THEN [fs |-> f, err |-> "invalid argument", hash |-> <<>>]
    ELSE IF data = <<>>
    THEN [fs |-> f, err |-> "", hash |-> HexDigest(data)]
    ELSE LET at == seekPosition(offset, Len(file.data))
             written == WriteAt(file.data, at, data)
         IN  [fs |-> [f EXCEPT !.files[path] =
                         [file EXCEPT !.data = written, !.mtime = t,
                                      !.ok = file.ok /\ written = file.data]],
              err |-> "", hash |-> HexDigest(data)]

\* parseRangeHeader of the append-capable handlers: Sscanf "offset=%d-".
\* A header is <<unit, start, ...>>; <<>> is no header.
parseRangeHeaderAppend(rangeHeader) ==
    IF rangeHeader[1] = "offset"
    THEN [start |-> rangeHeader[2], err |-> ""]
    ELSE [start |-> 0, err |-> "input does not match format"]

\* ChunkedUploaderService.CreateUpload.
CreateUploadAppend(fileSize) ==
    /\ nextId < MaxUploads
    /\ LET uploadId == nextId + 1
           r == createUploadAppend(fs, uploadId, fileSize, now)
       IN  /\ fs' = r.fs
           /\ nextId' = uploadId
           /\ declared' = [declared EXCEPT ![uploadId] = fileSize]
           /\ lastOp' = IF r.err = "" THEN Op("CreateUpload", uploadId, "", fileSize)
                        ELSE Op("CreateUpload", 0, "Failed to create upload", fileSize)
    /\ UNCHANGED now

\* CreateUploadHandler: file_size is a *int64; left out, it is -1.
CreateUploadHandlerAppend(fileSize) ==
    CreateUploadAppend(IF fileSize = <<>> THEN 0 - 1 ELSE fileSize[1])

\* UploadChunkHandler: without a Range header rangeStart is -1.  arg records
\* the length of the body.
UploadChunkHandlerAppend(uploadId, rangeHeader, body) ==
    /\ LET parsed == IF rangeHeader = <<>> THEN [start |-> 0 - 1, err |-> ""]
                     ELSE parseRangeHeaderAppend(rangeHeader)
       IN  IF parsed.err # ""
           THEN /\ lastOp' = Op("UploadChunk", uploadId, "Invalid Range header", Len(body))
                /\ UNCHANGED fs
           ELSE LET r == writePartAppend(fs, getUploadFilePath(uploadId), body,
                                         parsed.start, config.maxFileSize, now)
                IN  /\ fs' = r.fs
                    /\ lastOp' = Op("UploadChunk", uploadId, r.err, Len(body))
    /\ UNCHANGED <<now, nextId, declared>>

SizeOpts == {<<>>} \cup {<<s>> : s \in {0 - 1, Len(SweepData)}}

RangeHeaders == {<<>>, <<"offset", 0>>, <<"bytes", 0, 0>>}

Limits == {<<>>} \cup {<<m>> : m \in 1..MaxLen}

InitAppend ==
    /\ InitService
    /\ client = NoClient
    /\ calls = [c \in Callers |-> Idle]
    /\ store = InitStore
    /\ config \in [maxFileSize : Limits]

\* The length artifact i would have after the write, the model's cap on it.
LengthAfter(uploadId, rangeHeader, body) ==
    IF rangeHeader = <<>> THEN Len(Artifact(uploadId).data) + Len(body)
    ELSE Max(Len(Artifact(uploadId).data), Len(body))

NextAppend ==
    \/ /\ \E s \in SizeOpts : CreateUploadHandlerAppend(s)
       /\ UNCHANGED <<client, calls, store, config>>
    \/ /\ \E i \in Ids, r \in RangeHeaders, d \in {<<>>, SweepData} :
              /\ LengthAfter(i, r, d) <= MaxLen
              /\ UploadChunkHandlerAppend(i, r, d)
       /\ UNCHANGED <<client, calls, store, config>>
    \/ /\ \E i \in Ids : FinishUploadHandler(i, HexDigest(SweepData))
       /\ UNCHANGED <<client, calls, store, config>>
    \/ /\ \E t \in Durations : CleanupSweep(t)
       /\ UNCHANGED <<client, calls, store, config>>
    \/ /\ Tick
       /\ UNCHANGED <<client, calls, store, config>>

SpecAppend == InitAppend /\ [][NextAppend]_vars

(***************************************************************************)
(* SpecCreate: InitUploadHandler of the metadata variant in its steps, so  *)
(* that two creates run together and the states between the steps show.    *)
(***************************************************************************)
\* files.CreateFile(metadataPath): the directory and the file are made when
\* missing; a file that is there keeps what it holds.
InitCreateMeta(c, uploadId, path, checksum) ==
    /\ calls[c].pc = "idle"
    /\ store' = [store EXCEPT !.up[uploadId].dir = TRUE,
                              !.up[uploadId].meta.exists = TRUE]
    /\ calls' = [calls EXCEPT ![c] = [Idle EXCEPT !.pc = "meta", !.id = uploadId,
                                                  !.path = path, !.expected = checksum]]
    /\ UNCHANGED <<fs, now, nextId, declared, lastOp, client, config>>

\* files.LockFile: when the lock is held CreateMetadataFile returns the
\* error, which the handler writes to the response before it goes on.
InitLockMeta(c) ==
    /\ calls[c].pc = "meta"
    /\ LET locked == LockFile(store, calls[c].id, c) IN
       /\ store' = locked.st
       /\ calls' = IF locked.err # ""
                   THEN [calls EXCEPT ![c].pc = "pending",
                                      ![c].outcome = "Failed to lock file"]
                   ELSE [calls EXCEPT ![c].pc = "locked"]
    /\ UNCHANGED <<fs, now, nextId, declared, lastOp, client, config>>

\* encoder.Encode(metadata) and files.UnlockFile.
InitEncodeMeta(c) ==
    /\ calls[c].pc = "locked"
    /\ store' = UnlockFile([store EXCEPT !.up[calls[c].id].meta =
                                [exists |-> TRUE, last_attemp |-> now,
                                 total_size |-> Len(SweepData),
                                 path |-> calls[c].path,
                                 checksum |-> calls[c].expected]],
                           calls[c].id, c)
    /\ calls' = [calls EXCEPT ![c].pc = "pending"]
    /\ UNCHANGED <<fs, now, nextId, declared, lastOp, client, config>>

\* CreatePendingFile, reached also after a failed CreateMetadataFile; the
\* handler returns.
InitCreatePending(c) ==
    /\ calls[c].pc = "pending"
    /\ store' = CreatePendingFile(store, calls[c].id)
    /\ calls' = [calls EXCEPT ![c].pc = "done"]
    /\ lastOp' = Op("InitUpload", calls[c].id, calls[c].outcome, Len(SweepData))
    /\ UNCHANGED <<fs, now, nextId, declared, client, config>>

\* The caller makes its next request.
InitAgain(c) ==
    /\ calls[c].pc = "done"
    /\ calls' = [calls EXCEPT ![c] = Idle]
    /\ UNCHANGED <<fs, now, nextId, declared, lastOp, client, store, config>>

NextCreate ==
    \/ \E c \in Callers, i \in Ids, p \in DestPaths,
          k \in {HexDigest(<<0>>), HexDigest(SweepData)} : InitCreateMeta(c, i, p, k)
    \/ \E c \in Callers : InitLockMeta(c)
    \/ \E c \in Callers : InitEncodeMeta(c)
    \/ \E c \in Callers : InitCreatePending(c)
    \/ \E c \in Callers : InitAgain(c)

SpecCreate == Init /\ [][NextCreate]_vars

(***************************************************************************)
(* SpecFinish: finish calls of the append-capable service in two steps,    *)
(* the hashing and the return, with chunk writes to the same session in    *)
(* between.                                                                *)
(***************************************************************************)
NextFinish ==
    \/ /\ \E s \in SizeOpts : nextId + 1 \in First /\ CreateUploadHandlerAppend(s)
       /\ UNCHANGED <<client, calls, store, config>>
    \/ /\ \E i \in First, r \in {<<>>, <<"offset", 0>>}, d \in {<<0>>, SweepData} :
              /\ LengthAfter(i, r, d) <= MaxLen
              /\ UploadChunkHandlerAppend(i, r, d)
       /\ UNCHANGED <<client, calls, store, config>>
    \/ \E c \in Callers, i \in First, e \in {HexDigest(<<0>>), HexDigest(SweepData)} :
           FinishStart(c, i, e)
    \/ \E c \in Callers : FinishReturn(c)

SpecFinish == Init /\ [][NextFinish]_vars

(***************************************************************************)
(* SpecGoClient: Client.Upload of src/pkg/client/main.go, in its two       *)
(* variants, against a server that answers each request as it likes.  The  *)
(* client record holds the position in the source, what the TeeReader has  *)
(* fed to the hash, and the log of the requests made.                      *)
(***************************************************************************)
Variants == {"DoRequest", "Endpoints"}

Statuses == {200, 201, 400, 500}

\* A response: the transport failed (err), or a status came back.
Responses == [err : BOOLEAN, status : Statuses]

\* The status each variant takes for success.
ChunkStatus(variant) == IF variant = "DoRequest" THEN 200 ELSE 201

InitStatus == 201

FinishStatus(variant) == IF variant = "DoRequest" THEN 200 ELSE 201

\* A mutant of Tee: only the bytes read last are hashed.
TeeLast(hashed, bytes) == bytes

\* io.TeeReader(fileReader, hash): what is read is written to the hash.
Tee(hashed, bytes) == hashed \o bytes

\* A mutant of ChunkFailed: the outcome of a chunk request is not looked at.
ChunkFailedIgnored(variant, resp) == FALSE

\* err != nil, or a status other than the variant's success status.
ChunkFailed(variant, resp) == resp.err \/ resp.status # ChunkStatus(variant)

GoClients ==
    [variant : Variants, source : Sources, chunkSize : 1..MaxSource, pc : {"init"},
     pos : {0}, hashed : {<<>>}, log : {<<>>}, uploadId : {0}, err : {""},
     path : {<<>>}]

Request(kind, body, resp) == [kind |-> kind, body |-> body, resp |-> resp]

\* initUpload.  The DoRequest variant returns its error; the Endpoints
\* variant drops it and goes on with an empty upload id.
GoInit(cl, resp, uploadId) ==
    LET ok == ~resp.err /\ resp.status = InitStatus
        logged == [cl EXCEPT !.log = Append(@, Request("init", <<>>, resp))]
    IN  IF ok THEN [logged EXCEPT !.pc = "chunk", !.uploadId = uploadId]
        ELSE IF cl.variant = "DoRequest"
        THEN [logged EXCEPT !.pc = "done", !.err = "failed to init upload"]
        ELSE [logged EXCEPT !.pc = "chunk"]

\* What io.LimitedReader{N: chunkSize} can still give.
Available(cl) == Min(cl.chunkSize, Len(cl.source) - cl.pos)

\* A mutant of Break: the loop is not left, the pass is made again.
BreakNot(cl, before) == before

\* break: the chunk loop is left for finishUpload.  cl is the client after
\* the pass, before the client as the pass found it.
Break(cl, before) == [cl EXCEPT !.pc = "finish"]

\* One pass of the chunk loop.  In the DoRequest variant the transport reads
\* the body from the source: all of it when the request is answered with
\* success, the first `consumed` bytes otherwise; the loop ends after a
\* request that read nothing.  In the Endpoints variant the chunk is read
\* into a buffer first and the loop ends on an empty chunk, with no request.
GoChunk(cl, resp, consumed) ==
    LET failed == ChunkFailed(cl.variant, resp)
        taken == IF cl.variant = "DoRequest" /\ failed THEN consumed ELSE Available(cl)
        body == SubSeq(cl.source, cl.pos + 1, cl.pos + taken)
        read == [cl EXCEPT !.pos = @ + taken, !.hashed = Tee(@, body)]
        logged == [read EXCEPT !.log = Append(@, Request("chunk", body, resp))]
    IN  IF cl.variant = "Endpoints" /\ taken = 0 THEN Break(read, cl)
        ELSE IF failed THEN [logged EXCEPT !.pc = "done", !.err = "failed to upload chunk"]
        ELSE IF cl.variant = "DoRequest" /\ taken = 0 THEN Break(logged, cl)
        ELSE logged

\* finishUpload with hex.EncodeToString(hash.Sum(nil)).
GoFinish(cl, resp, path) ==
    LET ok == ~resp.err /\ resp.status = FinishStatus(cl.variant)
        logged == [cl EXCEPT !.log = Append(@, Request("finish", HexDigest(cl.hashed),
                                                       resp)),
                             !.pc = "done"]
    IN  IF ok THEN [logged EXCEPT !.path = path]
        ELSE [logged EXCEPT !.err = "failed to finish upload"]

InitGoClient ==
    /\ InitService
    /\ client \in GoClients
    /\ calls = [c \in Callers |-> Idle]
    /\ store = InitStore
    /\ config = NoConfig

ServerIdle == UNCHANGED <<fs, now, nextId, declared, lastOp, calls, store, config>>

ClientInit(resp) ==
    /\ client.pc = "init"
    /\ client' = GoInit(client, resp, 1)
    /\ ServerIdle

ClientChunk(resp, consumed) ==
    /\ client.pc = "chunk"
    /\ consumed <= Available(client)
    /\ client' = GoChunk(client, resp, consumed)
    /\ ServerIdle

ClientFinishUpload(resp) ==
    /\ client.pc = "finish"
    /\ client' = GoFinish(client, resp, getUploadFilePath(client.uploadId))
    /\ ServerIdle

NextGoClient ==
    \/ \E r \in Responses : ClientInit(r)
    \/ \E r \in Responses, k \in 0..MaxSource : ClientChunk(r, k)
    \/ \E r \in Responses : ClientFinishUpload(r)

SpecGoClient == InitGoClient /\ [][NextGoClient]_vars

\* Upload runs in a goroutine of its own and every request it makes is
\* answered or fails: a step that can be taken is taken.
SpecGoClientLive == SpecGoClient /\ WF_vars(NextGoClient)

(***************************************************************************)
(* SpecUpload: the DoRequest variant of Client.Upload against the handlers *)
(* of the append-capable service.  Each request is answered by the handler *)
(* it is addressed to; nothing fails in transport.                         *)
(***************************************************************************)
Answered(status) == [err |-> FALSE, status |-> status]

InitUpload ==
    /\ InitService
    /\ client \in {cl \in GoClients : cl.variant = "DoRequest"}
    /\ calls = [c \in Callers |-> Idle]
    /\ store = InitStore
    /\ config \in [maxFileSize : Limits]

\* POST /init with file_size null, answered by CreateUploadHandler.
UploadInit ==
    /\ client.pc = "init"
    /\ CreateUploadHandlerAppend(<<>>)
    /\ client' = GoInit(client, Answered(IF lastOp'.err = "" THEN 201 ELSE 500), lastOp'.id)
    /\ UNCHANGED <<calls, store, config>>

\* POST /{id}/upload with no Range header, answered by UploadChunkHandler:
\* 200 after the whole body was copied, 500 when writePart failed, in which
\* case any part of the body may have left the client.
UploadPart(consumed) ==
    /\ client.pc = "chunk"
    /\ consumed <= Available(client)
    /\ UploadChunkHandlerAppend(client.uploadId, <<>>,
                                SubSeq(client.source, client.pos + 1,
                                       client.pos + Available(client)))
    /\ client' = GoChunk(client, Answered(IF lastOp'.err = "" THEN 200 ELSE 500), consumed)
    /\ UNCHANGED <<calls, store, config>>

\* POST /{id}/finish, answered by FinishUploadHandler.
UploadFinish ==
    /\ client.pc = "finish"
    /\ FinishUploadHandler(client.uploadId, HexDigest(client.hashed))
    /\ client' = GoFinish(client, Answered(IF lastOp'.err = "" THEN 200 ELSE 400),
                          getUploadFilePath(client.uploadId))
    /\ UNCHANGED <<calls, store, config>>

NextUpload ==
    \/ UploadInit
    \/ \E k \in 0..MaxSource : UploadPart(k)
    \/ UploadFinish

SpecUpload == InitUpload /\ [][NextUpload]_vars

(***************************************************************************)
(* SpecTsClient: ChunkedUploaderClient.upload of ts-client against the     *)
(* handlers of the append-capable service.  The client declares the size   *)
(* of the file at init (or, as the Go client does, leaves it out), sends   *)
(* the chunks in file order and names the offset in a Content-Range        *)
(* header; the handler reads the Range header, so each chunk is appended.  *)
(***************************************************************************)
TsClients ==
    [source : Sources, chunkSize : 1..MaxSource, pc : {"init"}, sent : {0},
     uploadId : {0}, err : {""}, path : {<<>>}]

InitTsClient ==
    /\ InitService
    /\ client \in TsClients
    /\ calls = [c \in Callers |-> Idle]
    /\ store = InitStore
    /\ config = NoConfig

\* POST /init with file_size: file.size, or with no file_size.
TsInit(declare) ==
    /\ client.pc = "init"
    /\ CreateUploadHandlerAppend(IF declare THEN <<Len(client.source)>> ELSE <<>>)
    /\ client' = IF lastOp'.err = ""
                 THEN [client EXCEPT !.pc = "chunk", !.uploadId = lastOp'.id]
                 ELSE [client EXCEPT !.pc = "done", !.err = "Failed to initialize upload"]
    /\ UNCHANGED <<calls, store, config>>

\* file.slice(start, end) for chunk i, posted with Content-Range and no
\* Range header; the response is not looked at.
TsChunk ==
    LET start == client.sent * client.chunkSize
        end == Min(Len(client.source), start + client.chunkSize)
    IN  /\ client.pc = "chunk"
        /\ client.sent < NumChunks(Len(client.source), client.chunkSize)
        /\ UploadChunkHandlerAppend(client.uploadId, <<>>,
                                    SubSeq(client.source, start + 1, end))
        /\ client' = [client EXCEPT !.sent = @ + 1]
        /\ UNCHANGED <<calls, store, config>>

\* POST finish with the SHA-256 of the whole file.
TsFinish ==
    /\ client.pc = "chunk"
    /\ client.sent = NumChunks(Len(client.source), client.chunkSize)
    /\ FinishUploadHandler(client.uploadId, HexDigest(client.source))
    /\ client' = IF lastOp'.err = ""
                 THEN [client EXCEPT !.pc = "done",
                                     !.path = getUploadFilePath(client.uploadId)]
                 ELSE [client EXCEPT !.pc = "done",
                                     !.err = "Failed to finish upload. Checksum mismatch."]
    /\ UNCHANGED <<calls, store, config>>

NextTsClient ==
    \/ \E declare \in BOOLEAN : TsInit(declare)
    \/ TsChunk
    \/ TsFinish

SpecTsClient == InitTsClient /\ [][NextTsClient]_vars

(***************************************************************************)
(* SpecTsFetch: ChunkedUploaderClient.upload and uploadAsync of ts-client  *)
(* against a server that answers each request as it likes.  upload awaits  *)
(* each chunk request before it makes the next; uploadAsync makes them all *)
(* and awaits Promise.all of them.  The client record holds the chunk      *)
(* requests not yet settled and the log of the requests settled.           *)
(***************************************************************************)
\* The promise of fetch rejects when the request fails in transport; it
\* resolves with the response whatever the status of the response is.
Rejects(resp) == resp.err

TsFetchClients ==
    [method : {"upload", "uploadAsync"}, source : Sources, chunkSize : 1..MaxSource, pc : {"init"},
     pending : {{}}, rejected : {FALSE}, log : {<<>>}, uploadId : {0}, err : {""},
     path : {<<>>}]

InitTsFetch ==
    /\ InitService
    /\ client \in TsFetchClients
    /\ calls = [c \in Callers |-> Idle]
    /\ store = InitStore
    /\ config = NoConfig

\* file.slice(start, end) for chunk i.
slice(cl, i) ==
    SubSeq(cl.source, i * cl.chunkSize + 1,
           Min(Len(cl.source), i * cl.chunkSize + cl.chunkSize))

\* POST /init.  A rejected fetch or a status other than 201 throws; otherwise
\* the chunks 0..chunks-1 are to be sent (uploadAsync makes every request in
\* its loop, before it awaits any).
FetchInit(resp, uploadId) ==
    /\ client.pc = "init"
    /\ client' =
          LET logged == [client EXCEPT !.log = Append(@, Request("init", <<>>, resp))]
          IN  IF Rejects(resp) \/ resp.status # 201
              THEN [logged EXCEPT !.pc = "done", !.err = "Failed to initialize upload"]
              ELSE [logged EXCEPT
                       !.pc = "chunk", !.uploadId = uploadId,
                       !.pending = 0..(NumChunks(Len(client.source), client.chunkSize) - 1)]
    /\ ServerIdle

\* The request for chunk i settles.  In upload it is the request of the
\* current pass of the loop, and a rejection throws; a response is not looked
\* at.  In uploadAsync it is any of the requests in flight: the promise
\* resolves with the response or rejects, also after Promise.all has rejected.
FetchChunk(i, resp) ==
    /\ i \in client.pending
    /\ client.method = "upload"
          => (client.pc = "chunk" /\ \A j \in client.pending : i <= j)
    /\ client' =
          LET settled == [client EXCEPT
                             !.log = Append(@, Request("chunk", slice(client, i), resp)),
                             !.pending = @ \ {i}]
          IN  IF client.method = "uploadAsync"
              THEN [settled EXCEPT !.rejected = @ \/ Rejects(resp)]
              ELSE IF Rejects(resp)
              THEN [settled EXCEPT !.pc = "done", !.err = "Failed to upload file"]
              ELSE settled
    /\ ServerIdle

\* await Promise.all(promises) of uploadAsync rejects once one of the promises
\* has rejected.
AwaitAllRejected ==
    /\ client.method = "uploadAsync"
    /\ client.pc = "chunk"
    /\ client.rejected
    /\ client' = [client EXCEPT !.pc = "done", !.err = "Failed to upload file"]
    /\ ServerIdle

\* POST finish with the SHA-256 of the file: after the loop of upload, in
\* the then of Promise.all in uploadAsync.
FetchFinish(resp, path) ==
    /\ client.pc = "chunk"
    /\ client.pending = {}
    /\ ~client.rejected
    /\ client' =
          LET logged == [client EXCEPT
                            !.log = Append(@, Request("finish", HexDigest(client.source),
                                                      resp)),
                            !.pc = "done"]
          IN  IF Rejects(resp) \/ resp.status # 200
              THEN [logged EXCEPT !.err = "Failed to finish upload. Checksum mismatch."]
              ELSE [logged EXCEPT !.path = path]
    /\ ServerIdle

NextTsFetch ==
    \/ \E r \in Responses : FetchInit(r, 1)
    \/ \E i \in 0..MaxSource, r \in Responses : FetchChunk(i, r)
    \/ AwaitAllRejected
    \/ \E r \in Responses : FetchFinish(r, getUploadFilePath(client.uploadId))

SpecTsFetch == InitTsFetch /\ [][NextTsFetch]_vars

(***************************************************************************)
(* SpecWriters: two UploadChunk calls of the append-capable service on the *)
(* same artifact, step by step.  Each call opens the file for itself, so   *)
(* each has a file position of its own; io.Copy writes the body in pieces. *)
(* writePart of the current service takes the same steps for an offset     *)
(* from the start, without the size check.                                 *)
(***************************************************************************)
Writers == {c \in Callers : c <= 2}

\* The bodies the writers send.
Chunks == {<<1>>, <<1, 1>>}

\* A writePart call: where it is, its arguments, the position of its file
\* handle, how much of the body it has written, and history: the calls it
\* ran together with.
IdleWriter == [pc |-> "idle", id |-> 0, offset |-> 0, data |-> <<>>, pos |-> 0,
               sent |-> 0, err |-> "", with |-> {}]

\* The calls that hold the file open.
Writing == {c \in Writers : calls[c].pc \in {"opened", "seeked"}}

\* A mutant of Handle: every call writes through the handle of call 1.
HandleShared(c) == 1

\* The open file a call writes through: the one its own OpenFile returned.
Handle(c) == c

\* What the artifact held when it was created.
BaseData(uploadId) == Truncate(<<>>, Max(declared[uploadId], 0))

InitWriters ==
    /\ InitService
    /\ client = NoClient
    /\ calls = [c \in Callers |-> IdleWriter]
    /\ store = InitStore
    /\ config \in [maxFileSize : Limits]

\* OpenFile(path, O_WRONLY), Stat and the comparison with maxFileSize.
WriterOpen(c, uploadId, offset, data) ==
    LET file == Artifact(uploadId)
        err == IF ~file.exists THEN "no such file or directory"
               ELSE IF config.maxFileSize # <<>> /\ Len(file.data) >= config.maxFileSize[1]
               THEN "file_size_exceeds_maximum"
               ELSE ""
    IN  /\ calls[c].pc = "idle"
        /\ calls' = [d \in Callers |->
                        IF d = c
                        THEN [IdleWriter EXCEPT !.pc = IF err = "" THEN "opened" ELSE "done",
                                                !.id = uploadId, !.offset = offset,
                                                !.data = data, !.err = err,
                                                !.with = IF err = "" THEN Writing ELSE {}]
                        ELSE IF d \in Writing /\ err = ""
                        THEN [calls[d] EXCEPT !.with = @ \cup {c}]
                        ELSE calls[d]]
        /\ lastOp' = IF err = "" THEN lastOp ELSE Op("UploadChunk", uploadId, err, Len(data))
        /\ UNCHANGED <<fs, now, nextId, declared>>

\* file.Seek(offset, io.SeekStart), or file.Seek(0, io.SeekEnd) for -1.
WriterSeek(c) ==
    /\ calls[c].pc = "opened"
    /\ calls' = [calls EXCEPT ![c].pc = "seeked",
                              ![Handle(c)].pos =
                                  seekPosition(calls[c].offset,
                                               Len(Artifact(calls[c].id).data))]
    /\ UNCHANGED <<fs, now, nextId, declared, lastOp>>

\* One Write of io.Copy: the next `size` bytes of the body go to the file at
\* the handle's position, which moves past them.
WriterCopy(c, size) ==
    LET w == calls[c]
        path == getUploadFilePath(w.id)
        file == fs.files[path]
        at == calls[Handle(c)].pos
        written == WriteAt(file.data, at, SubSeq(w.data, w.sent + 1, w.sent + size))
    IN  /\ w.pc = "seeked"
        /\ size <= Len(w.data) - w.sent
        /\ fs' = [fs EXCEPT !.files[path] =
                     [file EXCEPT !.data = written, !.mtime = now,
                                  !.ok = file.ok /\ written = file.data]]
        /\ calls' = [calls EXCEPT ![c].sent = @ + size, ![Handle(c)].pos = at + size]
        /\ UNCHANGED <<now, nextId, declared, lastOp>>

\* The body is exhausted: writePart returns the hash of the chunk.
WriterReturn(c) ==
    /\ calls[c].pc = "seeked"
    /\ calls[c].sent = Len(calls[c].data)
    /\ calls' = [calls EXCEPT ![c].pc = "done"]
    /\ lastOp' = Op("UploadChunk", calls[c].id, "", Len(calls[c].data))
    /\ UNCHANGED <<fs, now, nextId, declared>>

NextWriters ==
    \/ /\ \E s \in SizeOpts : nextId + 1 \in First /\ CreateUploadHandlerAppend(s)
       /\ UNCHANGED <<client, calls, store, config>>
    \/ /\ \E c \in Writers, i \in First, o \in Offsets, d \in Chunks : WriterOpen(c, i, o, d)
       /\ UNCHANGED <<client, store, config>>
    \/ /\ \E c \in Writers : WriterSeek(c)
       /\ UNCHANGED <<client, store, config>>
    \/ /\ \E c \in Writers, k \in 1..2 : WriterCopy(c, k)
       /\ UNCHANGED <<client, store, config>>
    \/ /\ \E c \in Writers : WriterReturn(c)
       /\ UNCHANGED <<client, store, config>>

SpecWriters == InitWriters /\ [][NextWriters]_vars

(***************************************************************************)
(* Properties.                                                             *)
(***************************************************************************)
\* C4 (as claimed): once a finish has failed with a checksum mismatch the
\* session's artifact has been deleted.
C4_MismatchDiscardsArtifact ==
    (lastOp.op = "FinishUpload" /\ lastOp.err = MismatchError)
        => ~Artifact(lastOp.id).exists

\* C5 (as claimed): a chunk write that ends beyond the size declared at
\* create is rejected, and the artifact is no longer than that size.
C5_OverrunRejected ==
    (lastOp.op = "UploadChunk" /\ lastOp.id <= nextId
        /\ lastOp.arg > declared[lastOp.id])
        => (lastOp.err # "" /\ Len(Artifact(lastOp.id).data) <= declared[lastOp.id])

\* C6: for every artifact the service can hold, every offset and every
\* chunk, writing the chunk at the offset a second time leaves the bytes
\* that writing it once left.
C6_RewriteIsIdempotent ==
    \A i \in Ids, a \in 0..MaxLen, d \in Contents, h \in BOOLEAN :
        Artifact(i).exists =>
            LET once == UploadChunk(fs, i, d, a, h, now)
                twice == UploadChunk(once.fs, i, d, a, h, now)
            IN  /\ once.err = ""
                /\ twice.err = ""
                /\ twice.fs.files[getUploadFilePath(i)].data
                       = once.fs.files[getUploadFilePath(i)].data

\* C6 witness: a chunk write has succeeded on an artifact that holds bytes
\* other than the zeros it was created with, and writing over them again
\* at a different place would change them.
C6_Witness ==
    /\ lastOp.op = "UploadChunk" /\ lastOp.err = ""
    /\ Artifact(lastOp.id).exists
    /\ \E n \in 1..Len(Artifact(lastOp.id).data) : Artifact(lastOp.id).data[n] # 0
    /\ UploadChunk(fs, lastOp.id, <<0>>, 0, FALSE, now).fs # fs

\* C9 (as claimed): whatever is at a destination path is an artifact that a
\* finish has approved, byte for byte.
C9_DestinationsAreVerified ==
    \A p \in DestPaths : fs.files[p].exists => fs.files[p].ok

\* C10 (as claimed): finish succeeds for every expected checksum that equals
\* the artifact's hex digest up to letter case.
C10_FoldedChecksumAccepted ==
    (lastOp.op = "FinishUpload" /\ lastOp.rel \in {Exact, Folded}) => lastOp.err = ""

\* C10 (amended): finish succeeds exactly when the expected checksum is the
\* artifact's lower-case hex digest, character for character.
C10_ExactChecksumOnly ==
    lastOp.op = "FinishUpload" => (lastOp.err = "" <=> lastOp.rel = Exact)

\* C10 witness: a finish was sent the digest in another letter case and was
\* refused as a mismatch.
C10_Witness ==
    lastOp.op = "FinishUpload" /\ lastOp.rel = Folded /\ lastOp.err = MismatchError

\* C1: once the client has sent every chunk of its file, each once, in
\* whatever order, the artifact is byte-identical to the file, and a finish
\* with the file's digest made then has succeeded.
C1_AnyOrderUploadVerifies ==
    AllSent =>
        /\ Artifact(client.id).exists
        /\ Artifact(client.id).data = client.source
        /\ lastOp.op = "FinishUpload" => (lastOp.err = "" /\ Artifact(client.id).ok)

\* C1 witness: a file of several chunks, not all zeros, was delivered last
\* chunk first, and the finish succeeded.
C1_Witness ==
    /\ AllSent
    /\ Len(client.order) >= 2
    /\ client.order[1] = Len(client.order) - 1
    /\ \E n \in 1..Len(client.source) : client.source[n] # 0
    /\ lastOp.op = "FinishUpload" /\ lastOp.err = ""

\* C7 (as claimed): after a sweep no artifact is left whose last write is
\* older than the sweep's time limit.
C7_SweepRemovesStale ==
    lastOp.op = "Cleanup" =>
        \A i \in Ids : Artifact(i).exists => ~(Artifact(i).mtime < lastOp.arg)

\* C8 (as claimed): the sweep never deletes an artifact that a finish call
\* has hashed and not yet answered for.
C8_SweepSparesInFlightFinish ==
    \A c \in Callers : ~calls[c].swept

\* C2 (as claimed): of two finish calls for one upload id that overlap in
\* time at most one hashes the artifact, and once both have answered they
\* have answered the same.
C2_OverlappingFinishesShareOneRun ==
    \A c1 \in Callers : \A c2 \in calls[c1].with :
        /\ ~(calls[c1].hashed /\ calls[c2].hashed)
        /\ (calls[c1].pc = "done" /\ calls[c2].pc = "done")
               => calls[c1].outcome = calls[c2].outcome

\* C3 (as claimed): a finish call that hashed an artifact whose digest is
\* not the expected checksum answers with the checksum-mismatch error.
C3_MismatchIsReported ==
    \A c \in Callers :
        (calls[c].pc = "done" /\ calls[c].hashed /\ calls[c].sum # calls[c].expected)
            => calls[c].outcome = MismatchError

\* C11 (as claimed): a create that gives a size below zero is refused: it
\* returns an error and no upload id.
C11_NegativeSizeRejected ==
    (lastOp.op = "CreateUpload" /\ lastOp.arg < 0)
        => (lastOp.err # "" /\ lastOp.id = 0)

C13_CompletedIsTerminal ==
    [][\A i \in Ids :
          (Artifact(i).ok /\ lastOp'.op = "UploadChunk" /\ lastOp'.id = i)
              => /\ lastOp'.err # ""
                 /\ fs'.files[getUploadFilePath(i)] = Artifact(i)]_vars

\* C14 (as claimed): a sweep leaves in place every artifact that a finish
\* has approved.
C14_SweepSparesFinished ==
    [][\A i \in Ids :
          (Artifact(i).ok /\ lastOp'.op = "Cleanup")
              => fs'.files[getUploadFilePath(i)].exists]_vars

ChunkRequests == {n \in 1..Len(client.log) : client.log[n].kind = "chunk"}

FinishRequests == {n \in 1..Len(client.log) : client.log[n].kind = "finish"}

\* The chunk requests that failed in transport or were answered with a
\* status that is not the variant's success status.
RefusedChunks ==
    {n \in ChunkRequests : \/ client.log[n].resp.err
                           \/ client.log[n].resp.status # ChunkStatus(client.variant)}

\* C15: once a chunk request of the Go client has failed, in transport or
\* with a status that is not success, Upload has returned an error and has
\* sent no finish request.
C15_FailedChunkFailsUpload ==
    (RefusedChunks # {})
        => (client.pc = "done" /\ client.err # "" /\ FinishRequests = {})

\* C15 witness: a chunk request succeeded, the next one came back with a
\* status that is not success, and Upload has returned an error.
C15_Witness ==
    /\ client.pc = "done" /\ client.err # ""
    /\ \E n \in ChunkRequests :
           /\ n \notin RefusedChunks
           /\ n + 1 \in RefusedChunks
           /\ ~client.log[n + 1].resp.err

\* C16: the checksum of every finish request of the Go client is the digest
\* of the whole source.
C16_ChecksumOfWholeSource ==
    \A n \in FinishRequests : client.log[n].body = HexDigest(client.source)

\* C16 witness: a finish request was sent for a source of several chunks
\* that are not all alike.
C16_Witness ==
    /\ FinishRequests # {}
    /\ Len(client.source) > client.chunkSize
    /\ client.source[1] # client.source[Len(client.source)]

\* The service has no maxFileSize, or the source is shorter than it.
WithinLimit ==
    config.maxFileSize = <<>> \/ Len(client.source) < config.maxFileSize[1]

C18_RecentWriteSpared ==
    [][\A i \in Ids :
          (/\ lastOp.op = "UploadChunk" /\ lastOp.id = i /\ lastOp.err = ""
           /\ lastOp'.op = "Cleanup"
           /\ lastOp.at > lastOp'.arg)
              => fs'.files[getUploadFilePath(i)].exists]_vars

\* Both writers have written to the same artifact and returned no error.
BothWrote ==
    /\ \A c \in Writers : calls[c].pc = "done" /\ calls[c].err = ""
    /\ calls[1].id = calls[2].id

\* The writers were given offsets from the start and their ranges are
\* disjoint.
DisjointRanges ==
    /\ calls[1].offset >= 0 /\ calls[2].offset >= 0
    /\ \/ calls[1].offset + Len(calls[1].data) <= calls[2].offset
       \/ calls[2].offset + Len(calls[2].data) <= calls[1].offset

\* The artifact after the write of `first` and then the write of `second`,
\* one after the other.
Sequential(first, second) ==
    WriteAt(WriteAt(BaseData(calls[1].id), calls[first].offset, calls[first].data),
            calls[second].offset, calls[second].data)

\* C19: when two chunk writes to disjoint ranges of one artifact have both
\* returned, however their steps were interleaved, the artifact is what the
\* two writes made one after the other leave, in either order: each range
\* holds its writer's bytes.
C19_DisjointWritesIndependent ==
    (BothWrote /\ DisjointRanges /\ config.maxFileSize = <<>>)
        => /\ Artifact(calls[1].id).data = Sequential(1, 2)
           /\ Artifact(calls[1].id).data = Sequential(2, 1)

\* C19 witness: two writes of two bytes each, to bytes 0-1 and 2-3, held
\* the file open at the same time and both have returned.
C19_Witness ==
    /\ BothWrote /\ DisjointRanges /\ config.maxFileSize = <<>>
    /\ calls[1].with = {2}
    /\ Len(calls[1].data) = 2 /\ Len(calls[2].data) = 2
    /\ calls[2].offset = 0
    /\ Artifact(calls[1].id).data = <<1, 1, 1, 1>>

\* C20: when two appending chunk writes (no offset) to one session have
\* both returned, the artifact is what it was, followed by the two bodies
\* in one order or the other.
C20_AppendsAreSerialized ==
    (BothWrote /\ calls[1].offset = 0 - 1 /\ calls[2].offset = 0 - 1
               /\ config.maxFileSize = <<>>)
        => \/ Artifact(calls[1].id).data
                  = BaseData(calls[1].id) \o calls[1].data \o calls[2].data
           \/ Artifact(calls[1].id).data
                  = BaseData(calls[1].id) \o calls[2].data \o calls[1].data

\* C23: when the DoRequest variant of the Go client has sent its finish
\* request, it has sent ceil(S/C) chunk requests and none of them had an
\* empty body, unless the source is empty.
C23_ChunkRequestsPartitionSource ==
    (client.variant = "DoRequest" /\ FinishRequests # {})
        => /\ Cardinality(ChunkRequests) = NumChunks(Len(client.source), client.chunkSize)
           /\ Len(client.source) > 0
                 => \A n \in ChunkRequests : client.log[n].body # <<>>

\* The init request failed in transport or was answered with a status that
\* is not 201.
InitRefused ==
    /\ Len(client.log) > 0
    /\ client.log[1].kind = "init"
    /\ client.log[1].resp.err \/ client.log[1].resp.status # InitStatus

\* C29: once the init request of the Go client has failed or was answered
\* with a status other than 201, Upload has returned an error and has sent
\* no chunk request and no finish request.
C29_FailedInitFailsUpload ==
    InitRefused
        => /\ client.pc = "done" /\ client.err # ""
           /\ ChunkRequests = {} /\ FinishRequests = {}

\* C30: Upload of the Go client returns: with the result of finish or with
\* an error.
C30_UploadTerminates == <>(client.pc = "done")

\* C30 witness: Upload has returned after a loop of more than two chunk
\* requests that exhausted the source.
C30_Witness ==
    /\ client.pc = "done"
    /\ client.pos = Len(client.source)
    /\ Cardinality(ChunkRequests) > 2
    /\ FinishRequests # {}

\* C21: in every state a session's pending file and its metadata file are
\* both there or both absent, and a create that has reported an error has
\* left neither behind.
C21_CreateIsAllOrNothing ==
    /\ \A i \in Ids : store.up[i].file.exists <=> store.up[i].meta.exists
    /\ \A c \in Callers :
          (calls[c].pc = "done" /\ calls[c].outcome # "")
              => /\ ~store.up[calls[c].id].file.exists
                 /\ ~store.up[calls[c].id].meta.exists

\* The sweep with this time limit finds .pending itself expired and cannot
\* remove it, because it holds artifacts.
RootRemovalFails(timeLimit) ==
    /\ fs.dir.exists
    /\ fs.dir.mtime < timeLimit
    /\ \E i \in Ids : Artifact(i).exists

\* C22: a sweep in which the removal of an expired entry fails still
\* removes every artifact that is older than the ttl.
C22_SweepIsolatesFailures ==
    [][\A t \in Durations :
          (CleanupSweep(t) /\ RootRemovalFails(now - t))
              => \A i \in Ids :
                    (Artifact(i).exists /\ Artifact(i).mtime < now - t)
                        => ~fs'.files[getUploadFilePath(i)].exists]_vars

\* C24: a create, chunk write, finish or rename made with one session id
\* leaves the artifact of every other session as it was: there, with the
\* same bytes.
C24_SessionsAreIsolated ==
    [][\A a \in Ids, b \in Ids :
          (/\ a # b
           /\ lastOp'.id = a
           /\ lastOp'.op \in {"CreateUpload", "UploadChunk", "FinishUpload",
                               "RenameUploadedFile"}
           /\ Artifact(b).exists)
              => /\ fs'.files[getUploadFilePath(b)].exists
                 /\ fs'.files[getUploadFilePath(b)].data = Artifact(b).data]_vars

\* C25: when a finish call returns success for a checksum, the artifact is
\* there and its digest is that checksum, whatever chunk writes ran while
\* the call was hashing.
C25_FinishApprovesWhatIsStored ==
    [][\A c \in Callers :
          (/\ calls[c].pc = "hashed" /\ calls'[c].pc = "idle"
           /\ lastOp'.op = "FinishUpload" /\ lastOp'.err = "")
              => /\ Artifact(calls[c].id).exists
                 /\ HexDigest(Artifact(calls[c].id).data) = calls[c].expected]_vars

\* C26: a chunk write that asks for the hash of the chunk and the same write
\* that does not are the same step: from the same state they leave the same
\* artifact bytes and the same outcome, so two runs that differ only in
\* that stay in the same state and their finishes answer the same.
C26_ChunkHashIsAHint ==
    [][\A i \in First, a \in Offsets, d \in Contents :
          \A b \in RangeEnds(a, d) :
              UploadChunkHandler(i, a, b, d, TRUE) <=> UploadChunkHandler(i, a, b, d, FALSE)]_vars

\* C26 witness: a chunk write has put a byte that is not zero into the
\* artifact, and a finish for its digest has succeeded.
C26_Witness ==
    /\ lastOp.op = "FinishUpload" /\ lastOp.err = "" /\ lastOp.id = 1
    /\ \E n \in 1..Len(Artifact(1).data) : Artifact(1).data[n] # 0

\* C27: when every chunk of the source has been sent in file order with
\* the offset left out, the artifact holds the bytes of the source, whether
\* the session was created with no size or with the size of the source.
C27_AppendUploadDeliversSource ==
    (client.pc = "chunk"
        /\ client.sent = NumChunks(Len(client.source), client.chunkSize))
        => Artifact(client.uploadId).data = client.source

\* C28: with a maxFileSize configured, no artifact is longer than it.
C28_SizeNeverExceedsMaximum ==
    config.maxFileSize # <<>>
        => \A i \in Ids : Len(Artifact(i).data) <= config.maxFileSize[1]

\* The chunk requests of the ts-client that failed in transport or were
\* answered with a status outside 200..299.
TsRefusedChunks ==
    {n \in ChunkRequests : \/ client.log[n].resp.err
                           \/ client.log[n].resp.status < 200
                           \/ client.log[n].resp.status > 299}

\* C31: once a chunk request of the ts-client has failed in transport or was
\* answered with a status that is not success, no finish request is sent and
\* the upload, when it returns, has thrown; and a finish request is sent only
\* when every chunk request has settled with success.
C31_TsFailedChunkFailsUpload ==
    /\ TsRefusedChunks # {}
          => (FinishRequests = {} /\ (client.pc = "done" => client.err # ""))
    /\ FinishRequests # {}
          => (client.pending = {} /\ TsRefusedChunks = {})
====
